---- MODULE Spec2Model ----
(***************************************************************************)
(* Runway lighting controller (src/PCL-System.py): the polling main loop,  *)
(* detect_click, auto_light_control, check_turn_off_time and warning_flash *)
(* with the module-level state they share.                                 *)
(*                                                                         *)
(* Time is the value of utime.ticks_ms(); utime.time() is derived from it  *)
(* (whole seconds).  The source uses its tunables (RADIO_CLICK_WINDOW,     *)
(* LIGHT_ON_DURATION, ...) without assigning them; the header comment      *)
(* documents them as configurable values.  They are given here at reduced  *)
(* values so that every duration elapses within MaxTime; the two durations *)
(* the source multiplies by 1000 are given as that product, in ms.         *)
(* One pass of the main loop is the sequence of calls                      *)
(*   detect_click(radio_input); detect_click(momentary_button);            *)
(*   auto_light_control(); check_turn_off_time(); update_display();        *)
(*   if warning_flashing: warning_flash()                                  *)
(* and each call is one action; pc names the call that runs next.          *)
(* update_display() writes only to the LCD and changes no variable.        *)
(***************************************************************************)
EXTENDS Integers, Sequences, FiniteSets, TLC

\* ---- bounds of the model ----
MaxTime == 1500            \* no pass of the main loop starts after this tick count

\* ---- program constants ----
None == -1                 \* Python None for the optional timers
MsPerSec == 1000           \* the "* 1000" that converts seconds to ticks_ms
LOOP_INTERVAL == 100       \* main loop period, ms
REQUIRED_CLICKS == 5       \* len(activation_clicks) >= 5
MIN_CLICK_DURATION == 100  \* ms
ClickWindowMs == 500       \* RADIO_CLICK_WINDOW * 1000
LIGHT_ON_DURATION == 1     \* s
WarningFlashMs == 800      \* WARNING_FLASH_DURATION * 1000
FLASH_CYCLE_TIME == 400    \* ms
FLASH_OFF_TIME == 100      \* ms
LIGHT_THRESHOLD == 2000    \* raw ADC units
DAYLIGHT_STABLE_DURATION == 1 \* s
CurfewHHMM == 2200         \* the value of int(TURN_OFF_TIME) when one is configured

\* ---- inputs ----
PulseWidths == {0, MIN_CLICK_DURATION}                \* measured signal_end - signal_start
LightLevels == {LIGHT_THRESHOLD - 1, LIGHT_THRESHOLD} \* light_sensor.read_u16()
BootTimes == {(21 * 60 + 59) * 60 + 59, 22 * 60 * 60}  \* second of the day at power-up

VARIABLES
  now,                   \* utime.ticks_ms()
  boot_time,             \* second of the day at which ticks_ms was 0
  pc,                    \* the call of the main loop that runs next
  last_loop_time,
  TURN_OFF_TIME,         \* configuration: None or an HHMM
  activation_clicks,
  lights_on,
  lights_on_timer,
  warning_flashing,
  warning_start_time,
  daylight_timer,
  last_flash_cycle_time,
  light_out,             \* runway_light.value() = onboard_led.value()
  \* history variables (not in the source)
  op,                    \* what the last call did
  pulse,                 \* pulse width measured by the last detect_click, None if the pin was low
  reading,               \* light level read by the last auto_light_control, None before the first
  bright_since,          \* utime.time() of the first reading of the current run of bright readings
  seen_qualifying,       \* some pulse of at least MIN_CLICK_DURATION has been measured
  pilot_session,         \* a click activation is running: not ended by the flasher or the gate
  on_before,             \* lights_on or warning_flashing held when the last detect_click began
  warned                 \* the flasher has reported Done; no activation or gate switch-on since

vars == <<now, boot_time, pc, last_loop_time, TURN_OFF_TIME, activation_clicks, lights_on,
          lights_on_timer, warning_flashing, warning_start_time, daylight_timer,
          last_flash_cycle_time, light_out, op, pulse, reading, bright_since,
          seen_qualifying, pilot_session, on_before, warned>>

\* ---- clock helpers ----
\* utime.ticks_diff; the 30-bit wrap of ticks_ms is far beyond MaxTime
ticks_diff(a, b) == a - b

\* utime.time(): whole seconds of the real-time clock, at tick count t
utime_time(t) == boot_time + (t \div MsPerSec)

\* int(f"{h:02}{m:02}") of utime.localtime() at tick count t
HHMM(t) ==
  LET s == utime_time(t) % (24 * 60 * 60)
  IN  (s \div 3600) * 100 + ((s \div 60) % 60)

\* ---- detect_click ----
Qualifies_NoMinimum(signal_start, signal_end) == TRUE

\* line 234: the pulse is long enough to count
Qualifies(signal_start, signal_end) ==
  ticks_diff(signal_end, signal_start) >= MIN_CLICK_DURATION

Prune_Nothing(clicks, current_time) == clicks

\* line 236: keep the clicks within the window that ends at current_time
Prune(clicks, current_time) ==
  SelectSeq(clicks, LAMBDA click :
              ticks_diff(current_time, click) <= ClickWindowMs)

\* timer_reset_flash: off, on, off, on with three sleeps of FLASH_OFF_TIME;
\* the light is left on and the clock has advanced by the three sleeps
timer_reset_flash_sleep == 3 * FLASH_OFF_TIME

BufferAfter_Keep(pruned, activate) == pruned

\* lines 237-238: the buffer is cleared on activation
BufferAfter(pruned, activate) == IF activate THEN <<>> ELSE pruned

NextPcAfterClick(pin) == IF pin = "radio_input" THEN "button" ELSE "auto"

detect_click(pin, level, width) ==
  /\ pc = (IF pin = "radio_input" THEN "radio" ELSE "button")
  /\ LET current_time == now
         signal_end   == IF level THEN now + width ELSE now
         appended     == IF level /\ Qualifies(current_time, signal_end)
                           THEN Append(activation_clicks, current_time)
                           ELSE activation_clicks
         pruned       == Prune(appended, current_time)
         activate     == Len(pruned) >= REQUIRED_CLICKS
     IN  /\ activation_clicks' = BufferAfter(pruned, activate)
         /\ lights_on' = IF activate THEN TRUE ELSE lights_on
         /\ lights_on_timer' = IF activate
                                 THEN utime_time(signal_end) + LIGHT_ON_DURATION
                                 ELSE lights_on_timer
         /\ light_out' = IF activate THEN 1 ELSE light_out
         /\ now' = IF activate THEN signal_end + timer_reset_flash_sleep ELSE signal_end
         /\ op' = IF activate THEN "activate" ELSE "no_activate"
         /\ pulse' = IF level THEN width ELSE None
         /\ seen_qualifying' = (seen_qualifying \/ (level /\ width >= MIN_CLICK_DURATION))
         /\ pilot_session' = IF activate THEN TRUE ELSE pilot_session
         /\ warned' = IF activate THEN FALSE ELSE warned
  /\ on_before' = (lights_on \/ warning_flashing)
  /\ pc' = NextPcAfterClick(pin)
  /\ UNCHANGED <<boot_time, last_loop_time, TURN_OFF_TIME, warning_flashing, warning_start_time,
                 daylight_timer, last_flash_cycle_time, reading, bright_since>>

\* lines 231-232: the pin stays high, so the wait loop of the call is still polling
\* it after BlockedFor; the call has appended nothing and has not returned
BlockedFor == 2 * LOOP_INTERVAL

detect_click_blocked(pin) ==
  /\ pc = (IF pin = "radio_input" THEN "radio" ELSE "button")
  /\ pc' = "busy_wait"
  /\ now' = now + BlockedFor
  /\ op' = "blocked"
  /\ pulse' = None
  /\ UNCHANGED <<boot_time, last_loop_time, TURN_OFF_TIME, activation_clicks, lights_on,
                 lights_on_timer, warning_flashing, warning_start_time, daylight_timer,
                 last_flash_cycle_time, light_out, reading, bright_since, seen_qualifying,
                 pilot_session, on_before, warned>>

\* ---- auto_light_control ----
IsDark(light_level) == light_level < LIGHT_THRESHOLD

DaylightTimerNext_KeepOnDark(light_level, timer, t) ==
  IF timer = None /\ ~IsDark(light_level) THEN t ELSE timer

\* lines 213-220: the value of daylight_timer after the call
DaylightTimerNext(light_level, timer, t) ==
  IF IsDark(light_level) THEN None
  ELSE IF timer = None THEN t ELSE timer

GateTurnsOn_Always(light_level, on) == IsDark(light_level)

\* lines 213-217: the dark branch switches the lights on
GateTurnsOn(light_level, on) == IsDark(light_level) /\ ~on

\* lines 218-224: the bright branch switches the lights off
GateTurnsOff(light_level, timer, t, on) ==
  /\ ~IsDark(light_level)
  /\ timer # None
  /\ t - timer >= DAYLIGHT_STABLE_DURATION
  /\ on

auto_light_control(light_level) ==
  /\ pc = "auto"
  /\ LET t    == utime_time(now)
         on   == GateTurnsOn(light_level, lights_on)
         off  == GateTurnsOff(light_level, daylight_timer, t, lights_on)
     IN  /\ daylight_timer' = DaylightTimerNext(light_level, daylight_timer, t)
         /\ lights_on' = IF on THEN TRUE ELSE IF off THEN FALSE ELSE lights_on
         /\ light_out' = IF on THEN 1 ELSE IF off THEN 0 ELSE light_out
         /\ op' = IF on THEN "gate_on" ELSE IF off THEN "gate_off" ELSE "gate_none"
         /\ bright_since' = IF IsDark(light_level) THEN None
                            ELSE IF bright_since = None THEN t ELSE bright_since
         /\ pilot_session' = IF off THEN FALSE ELSE pilot_session
         /\ warned' = IF on THEN FALSE ELSE warned
  /\ reading' = light_level
  /\ pc' = "curfew"
  /\ UNCHANGED <<now, boot_time, last_loop_time, TURN_OFF_TIME, activation_clicks, lights_on_timer,
                 warning_flashing, warning_start_time, last_flash_cycle_time, pulse,
                 seen_qualifying, on_before>>

\* ---- check_turn_off_time ----
CurfewFiresAt_StrictlyAfter(t, on, flashing) ==
  /\ TURN_OFF_TIME # None
  /\ HHMM(t) > TURN_OFF_TIME
  /\ on
  /\ ~flashing

\* lines 246-249: the condition under which the warning is started, at tick count t
CurfewFiresAt(t, on, flashing) ==
  /\ TURN_OFF_TIME # None
  /\ HHMM(t) >= TURN_OFF_TIME
  /\ on
  /\ ~flashing

CurfewFires == CurfewFiresAt(now, lights_on, warning_flashing)

check_turn_off_time ==
  /\ pc = "curfew"
  /\ warning_flashing' = IF CurfewFires THEN TRUE ELSE warning_flashing
  /\ warning_start_time' = IF CurfewFires THEN now ELSE warning_start_time
  /\ op' = IF CurfewFires THEN "warning_start" ELSE "curfew_none"
  /\ pc' = "flash"
  /\ UNCHANGED <<now, boot_time, last_loop_time, TURN_OFF_TIME, activation_clicks, lights_on,
                 lights_on_timer, daylight_timer, last_flash_cycle_time, light_out, pulse,
                 reading, bright_since, seen_qualifying, pilot_session, on_before, warned>>

\* ---- warning_flash ----
\* lines 181-188: the light value a progress within the cycle commands, None past the cycle
FlashPattern(cycle_progress) ==
  IF cycle_progress < FLASH_OFF_TIME THEN 0
  ELSE IF cycle_progress < FLASH_OFF_TIME * 2 THEN 1
  ELSE IF cycle_progress < FLASH_OFF_TIME * 3 THEN 0
  ELSE IF cycle_progress < FLASH_CYCLE_TIME THEN 1
  ELSE None

\* line 174
FlashDone(current_time, start) ==
  ticks_diff(current_time, start) > WarningFlashMs

warning_flash ==
  LET current_time == now
      first        == warning_start_time = None
      start        == IF first THEN current_time ELSE warning_start_time
      cycle_start  == IF first THEN current_time ELSE last_flash_cycle_time
      done         == FlashDone(current_time, start)
      cycle_progress == ticks_diff(current_time, cycle_start)
      cmd          == FlashPattern(cycle_progress)
  IN  IF done
        THEN /\ warning_flashing' = FALSE
             /\ warning_start_time' = None
             /\ last_flash_cycle_time' = cycle_start
             /\ light_out' = 0
             /\ op' = "flash_done"
             /\ pilot_session' = FALSE
             /\ warned' = TRUE
        ELSE /\ warning_flashing' = warning_flashing
             /\ warning_start_time' = start
             /\ last_flash_cycle_time' = IF cmd = None THEN current_time ELSE cycle_start
             /\ light_out' = IF cmd = None THEN light_out ELSE cmd
             /\ op' = IF cmd = None THEN "flash_roll" ELSE "flash_set"
             /\ pilot_session' = pilot_session
             /\ warned' = warned

\* lines 265-266: the last step of a pass
FlashStep ==
  /\ pc = "flash"
  /\ IF warning_flashing
       THEN warning_flash
       ELSE /\ UNCHANGED <<warning_flashing, warning_start_time, last_flash_cycle_time,
                           light_out, pilot_session, warned>>
            /\ op' = "flash_skip"
  /\ pc' = "wait"
  /\ UNCHANGED <<now, boot_time, last_loop_time, TURN_OFF_TIME, activation_clicks, lights_on,
                 lights_on_timer, daylight_timer, pulse, reading, bright_since,
                 seen_qualifying, on_before>>

\* ---- main loop ----
Max(a, b) == IF a >= b THEN a ELSE b

\* lines 254-257: the loop spins until 100 ms have passed since the last pass began
Tick ==
  /\ pc = "wait"
  /\ now < MaxTime
  /\ now' = Max(now, last_loop_time + LOOP_INTERVAL)
  /\ last_loop_time' = now'
  /\ pc' = "radio"
  /\ op' = "tick"
  /\ pulse' = None
  /\ reading' = None
  /\ on_before' = FALSE
  /\ UNCHANGED <<boot_time, TURN_OFF_TIME, activation_clicks, lights_on, lights_on_timer,
                 warning_flashing, warning_start_time, daylight_timer,
                 last_flash_cycle_time, light_out, bright_since,
                 seen_qualifying, pilot_session, warned>>

Init ==
  /\ now = 0
  /\ boot_time \in BootTimes
  /\ pc = "wait"
  /\ last_loop_time = 0
  /\ TURN_OFF_TIME \in {None, CurfewHHMM}
  /\ activation_clicks = <<>>
  /\ lights_on = FALSE
  /\ lights_on_timer = 0
  /\ warning_flashing = FALSE
  /\ warning_start_time = None
  /\ daylight_timer = None
  /\ last_flash_cycle_time = 0
  /\ light_out = 0
  /\ op = "init"
  /\ pulse = None
  /\ reading = None
  /\ bright_since = None
  /\ seen_qualifying = FALSE
  /\ pilot_session = FALSE
  /\ on_before = FALSE
  /\ warned = FALSE

ClickRadio == \E level \in BOOLEAN, width \in PulseWidths :
                 detect_click("radio_input", level, width)

ClickButton == \E level \in BOOLEAN, width \in PulseWidths :
                 detect_click("momentary_button", level, width)

ClickBlocked == \E pin \in {"radio_input", "momentary_button"} : detect_click_blocked(pin)

AutoLight == \E light_level \in LightLevels : auto_light_control(light_level)

Next ==
  \/ Tick
  \/ ClickRadio
  \/ ClickButton
  \/ ClickBlocked
  \/ AutoLight
  \/ check_turn_off_time
  \/ FlashStep

Spec == Init /\ [][Next]_vars

TypeOK ==
  /\ pc \in {"wait", "radio", "button", "busy_wait", "auto", "curfew", "flash"}
  /\ lights_on \in BOOLEAN
  /\ warning_flashing \in BOOLEAN
  /\ light_out \in {0, 1}

\* ---- phases, read through the flags of the source ----
InClickCall == pc \in {"radio", "button"}
AfterClickCall == pc \in {"button", "auto"}
Warning == warning_flashing
Active == lights_on /\ ~warning_flashing
Idle == ~lights_on /\ ~warning_flashing

\* number of timestamps of clicks that lie in the window ending at t
InWindowCount(clicks, t) ==
  Cardinality({i \in 1..Len(clicks) : t - clicks[i] <= ClickWindowMs})

Elems(q) == {q[i] : i \in 1..Len(q)}

\* C1: a call of detect_click activates the lights (lights_on set, lights_on_timer
\* armed, light driven on) if and only if the click buffer, together with the click
\* of this call when its pulse qualifies, holds at least REQUIRED_CLICKS timestamps
\* within the click window that ends at the call's current time.
C1_ActivateIffWindowFull ==
  [][InClickCall =>
       LET counted == InWindowCount(activation_clicks, now)
                        + (IF pulse' # None /\ pulse' >= MIN_CLICK_DURATION THEN 1 ELSE 0)
       IN  /\ (op' = "activate") <=> (counted >= REQUIRED_CLICKS)
           /\ (op' = "activate") =>
                /\ lights_on'
                /\ light_out' = 1
                /\ lights_on_timer' = utime_time(now + pulse') + LIGHT_ON_DURATION
           /\ (op' # "activate") =>
                /\ lights_on' = lights_on
                /\ lights_on_timer' = lights_on_timer
                /\ light_out' = light_out]_vars

\* five qualifying clicks inside one window have just activated the lights
C1_Witness ==
  /\ AfterClickCall
  /\ op = "activate"
  /\ pulse = MIN_CLICK_DURATION
  /\ lights_on
  /\ lights_on_timer = utime_time(now - timer_reset_flash_sleep) + LIGHT_ON_DURATION

\* C2: a pulse measured shorter than MIN_CLICK_DURATION is never appended to the click
\* buffer and never activates; as long as only such pulses have been measured the
\* buffer is empty and no activation has happened.
C2_ShortPulseNeverCounts ==
  /\ [][(InClickCall /\ pulse' # None /\ pulse' < MIN_CLICK_DURATION) =>
          /\ Elems(activation_clicks') \subseteq Elems(activation_clicks)
          /\ Len(activation_clicks') <= Len(activation_clicks)
          /\ op' # "activate"]_vars
  /\ [](~seen_qualifying =>
          /\ activation_clicks = <<>>
          /\ lights_on_timer = 0
          /\ ~pilot_session)

\* several passes with pulses on the pins, all of them too short
C2_Witness ==
  /\ AfterClickCall
  /\ pulse # None
  /\ pulse < MIN_CLICK_DURATION
  /\ ~seen_qualifying
  /\ now >= 5 * LOOP_INTERVAL

\* C3: an activation during the warning phase returns the machine to steady Active:
\* lights on, timer re-armed, warning_flashing false and the flasher state discarded.
C3_ReactivationCancelsWarning ==
  [][(InClickCall /\ warning_flashing /\ op' = "activate") =>
       /\ lights_on'
       /\ lights_on_timer' = utime_time(now + pulse') + LIGHT_ON_DURATION
       /\ ~warning_flashing'
       /\ warning_start_time' = None]_vars

\* C4: when the flasher finishes, warning_flashing is false, lights_on is false and
\* the light output is 0.
C4_DoneMeansIdleAndOff ==
  (pc = "wait" /\ op = "flash_done") =>
     /\ ~warning_flashing
     /\ ~lights_on
     /\ light_out = 0

\* C5: once lights_on_timer has been reached in a pilot session, the pass of the main
\* loop that sees it leaves the machine in the warning phase (from which the flasher
\* switches the lights off), also when no TURN_OFF_TIME is configured.
C5_TimerExpiryStartsWarning ==
  (pc = "wait" /\ pilot_session /\ lights_on /\ utime_time(now) >= lights_on_timer)
     => warning_flashing

\* C6 as claimed: during a pilot session no call of auto_light_control changes
\* lights_on or the light output, whatever the light level.
C6_GateInertInSession ==
  [][(pc = "auto" /\ pilot_session) =>
       /\ lights_on' = lights_on
       /\ light_out' = light_out]_vars

\* C6 amended: during a pilot session a dark reading changes neither lights_on nor the
\* light output; the only change auto_light_control makes in a session is to switch
\* the lights off (lights_on false, output 0) on a bright reading once the readings
\* have been bright for DAYLIGHT_STABLE_DURATION.
C6_DarkInertInSession ==
  [][(pc = "auto" /\ pilot_session) =>
       /\ reading' < LIGHT_THRESHOLD =>
            /\ lights_on' = lights_on
            /\ light_out' = light_out
       /\ (lights_on' # lights_on \/ light_out' # light_out) =>
            /\ reading' >= LIGHT_THRESHOLD
            /\ bright_since # None
            /\ utime_time(now) - bright_since >= DAYLIGHT_STABLE_DURATION
            /\ ~lights_on'
            /\ light_out' = 0]_vars

\* a dark reading taken in a pilot session while the flasher holds the light off
C6_Witness ==
  /\ pc = "curfew"
  /\ pilot_session
  /\ warning_flashing
  /\ reading # None
  /\ reading < LIGHT_THRESHOLD
  /\ lights_on
  /\ light_out = 0

\* C7: whenever auto_light_control switches the lights off, the reading is bright, every
\* reading since the stability timer was set was bright, and DAYLIGHT_STABLE_DURATION has
\* elapsed since then; a dark reading leaves daylight_timer at None.
C7_OffOnlyAfterStableBright ==
  [][pc = "auto" =>
       /\ (lights_on /\ ~lights_on') =>
            /\ reading' >= LIGHT_THRESHOLD
            /\ bright_since # None
            /\ daylight_timer = bright_since
            /\ utime_time(now) - bright_since >= DAYLIGHT_STABLE_DURATION
       /\ (light_out = 1 /\ light_out' = 0) => (lights_on /\ ~lights_on')
       /\ reading' < LIGHT_THRESHOLD => daylight_timer' = None]_vars

\* the gate has just switched the lights off
C7_Witness ==
  /\ pc = "curfew"
  /\ op = "gate_off"
  /\ ~lights_on
  /\ light_out = 0
  /\ reading >= LIGHT_THRESHOLD

\* C8: outside a pilot session and outside the warning phase, a dark reading resets
\* the stability timer and leaves the light output at 1 after that same call.
C8_DarkDrivesOnAtOnce ==
  [][(pc = "auto" /\ ~pilot_session /\ ~warning_flashing /\ reading' < LIGHT_THRESHOLD) =>
       /\ daylight_timer' = None
       /\ light_out' = 1]_vars

\* C9: in a warning phase the flasher output is the Off, On, Off, On pattern of
\* progress = now - cycle_start, and the cycles start at the start of the warning
\* phase: cycle_start is never earlier than the phase start.
C9_PatternFromPhaseStart ==
  (pc = "wait" /\ warning_flashing) =>
     /\ op = "flash_set" => light_out = FlashPattern(now - last_flash_cycle_time)
     /\ last_flash_cycle_time >= warning_start_time

\* C10: at a tick boundary outside a warning phase the light output is on exactly when
\* lights_on is set (Active, or the daylight gate commanding on); in Idle it is off.
C10_OutputMatchesPhase ==
  (pc = "wait" /\ ~warning_flashing) => (light_out = 1 <=> lights_on)

\* C11: the flags encode exactly one phase: at every tick boundary warning_flashing
\* implies lights_on, and warning_flashing holds exactly when warning_start_time is set.
C11_FlagsEncodeOnePhase ==
  pc = "wait" =>
    /\ warning_flashing => lights_on
    /\ warning_flashing <=> (warning_start_time # None)

\* C12: no call of detect_click blocks the pass: the program is never found inside the
\* wait loop of a call, still polling its pin, more than a loop interval after the
\* call began.
C12_ClickCallReturns ==
  pc = "busy_wait" => ticks_diff(now, last_loop_time) <= LOOP_INTERVAL

\* C13: with a TURN_OFF_TIME configured, at the end of every pass whose wall-clock time
\* is before it the lights are on, whatever the clicks and the light level were.
C13_ForcedOnBeforeCurfew ==
  (pc = "wait" /\ op # "init" /\ TURN_OFF_TIME # None /\ HHMM(now) < TURN_OFF_TIME) =>
     /\ lights_on
     /\ light_out = 1

\* ---- one pass of the main loop as a function of the program state ----
\* the module-level state of the source as one record
ProgState ==
  [clicks |-> activation_clicks, on |-> lights_on, timer |-> lights_on_timer,
   flashing |-> warning_flashing, wstart |-> warning_start_time,
   dtimer |-> daylight_timer, cycle |-> last_flash_cycle_time, out |-> light_out]

\* detect_click on state s, called at tick count t: the state and the tick count on return
ClickFn(s, t, level, width) ==
  LET signal_end == IF level THEN t + width ELSE t
      appended   == IF level /\ Qualifies(t, signal_end) THEN Append(s.clicks, t) ELSE s.clicks
      pruned     == Prune(appended, t)
      activate   == Len(pruned) >= REQUIRED_CLICKS
  IN  IF activate
        THEN [s |-> [s EXCEPT !.clicks = BufferAfter(pruned, activate), !.on = TRUE, !.out = 1,
                               !.timer = utime_time(signal_end) + LIGHT_ON_DURATION],
              t |-> signal_end + timer_reset_flash_sleep]
        ELSE [s |-> [s EXCEPT !.clicks = BufferAfter(pruned, activate)], t |-> signal_end]

\* auto_light_control on state s at tick count t
AutoFn(s, t, light_level) ==
  LET sec == utime_time(t)
      on  == GateTurnsOn(light_level, s.on)
      off == GateTurnsOff(light_level, s.dtimer, sec, s.on)
  IN  [s EXCEPT !.dtimer = DaylightTimerNext(light_level, s.dtimer, sec),
                !.on = IF on THEN TRUE ELSE IF off THEN FALSE ELSE s.on,
                !.out = IF on THEN 1 ELSE IF off THEN 0 ELSE s.out]

\* check_turn_off_time on state s at tick count t
CurfewFn(s, t) ==
  IF CurfewFiresAt(t, s.on, s.flashing)
    THEN [s EXCEPT !.flashing = TRUE, !.wstart = t]
    ELSE s

\* "if warning_flashing: warning_flash()" on state s at tick count t
FlashFn(s, t) ==
  LET first == s.wstart = None
      start == IF first THEN t ELSE s.wstart
      cycle_start == IF first THEN t ELSE s.cycle
      cmd   == FlashPattern(ticks_diff(t, cycle_start))
  IN  IF ~s.flashing THEN s
      ELSE IF FlashDone(t, start)
        THEN [s EXCEPT !.flashing = FALSE, !.wstart = None, !.cycle = cycle_start, !.out = 0]
        ELSE [s EXCEPT !.wstart = start,
                       !.cycle = IF cmd = None THEN t ELSE cycle_start,
                       !.out = IF cmd = None THEN s.out ELSE cmd]

\* the pass that begins at tick count t with the inputs in
PassFn(s, t, in) ==
  LET r == ClickFn(s, t, in.radio_level, in.radio_width)
      b == ClickFn(r.s, r.t, in.button_level, in.button_width)
  IN  FlashFn(CurfewFn(AutoFn(b.s, b.t, in.light_level), b.t), b.t)

\* the inputs under which the clock reads the same throughout a pass: no pin is held
\* high for a measurable time
SameNowInputs ==
  [radio_level : BOOLEAN, radio_width : {0}, button_level : BOOLEAN, button_width : {0},
   light_level : LightLevels]

\* C14: the pass is idempotent: from every tick boundary, running the pass and then
\* running it again with the same inputs at the same tick count gives the state the
\* first run gave.
C14_PassIdempotent ==
  pc = "wait" =>
    LET t == Max(now, last_loop_time + LOOP_INTERVAL)
    IN  \A in \in SameNowInputs :
          PassFn(PassFn(ProgState, t, in), t, in) = PassFn(ProgState, t, in)

\* C15: a call of detect_click that finds the machine Idle and the window full leaves
\* lights_on true, lights_on_timer at the clock reading plus LIGHT_ON_DURATION, the
\* light on and the click buffer empty.
C15_ActivationFromIdle ==
  [][(InClickCall /\ pc' # "busy_wait" /\ Idle
        /\ InWindowCount(activation_clicks, now)
             + (IF pulse' # None /\ pulse' >= MIN_CLICK_DURATION THEN 1 ELSE 0)
           >= REQUIRED_CLICKS) =>
       /\ lights_on'
       /\ lights_on_timer' = utime_time(now + pulse') + LIGHT_ON_DURATION
       /\ light_out' = 1
       /\ activation_clicks' = <<>>]_vars

\* the lights were off and not flashing when the activating call began
C15_Witness ==
  /\ AfterClickCall
  /\ op = "activate"
  /\ ~on_before
  /\ lights_on
  /\ light_out = 1
  /\ activation_clicks = <<>>

\* C16: once the flasher has reported Done, check_turn_off_time does not start a warning
\* phase again unless an activation or a switch-on by the daylight gate came in between.
C16_DoneOnlyOnce ==
  [][(pc = "curfew" /\ warned) => ~warning_flashing']_vars

\* C17: check_turn_off_time starts the warning only from Active at or after
\* TURN_OFF_TIME, the pass that starts it leaves the flasher with phase start = cycle
\* start = now, the check never moves the phase start of a running warning, and the
\* flasher ends the phase on its first call later than WarningFlashMs after the start.
C17_CurfewStartsFlasherAtNow ==
  /\ []((pc = "wait" /\ warning_flashing /\ warning_start_time = now) =>
          last_flash_cycle_time = now)
  /\ [][/\ (pc = "curfew" /\ ~warning_flashing /\ warning_flashing') =>
             /\ lights_on
             /\ TURN_OFF_TIME # None
             /\ HHMM(now) >= TURN_OFF_TIME
             /\ warning_start_time' = now
        /\ (pc = "curfew" /\ warning_flashing) => warning_start_time' = warning_start_time
        /\ (pc = "flash" /\ warning_flashing
              /\ ticks_diff(now, warning_start_time) > WarningFlashMs) =>
             ~warning_flashing']_vars

\* C18: a call of warning_flash that finds the cycle progress now - last_flash_cycle_time
\* at or beyond FLASH_CYCLE_TIME (and the phase not yet over) restarts the cycle at now
\* and leaves the light output at 1, whatever the output was before the call.
C18_RolloverDrivesOn ==
  [][(pc = "flash" /\ warning_flashing /\ ~FlashDone(now, warning_start_time)
        /\ ticks_diff(now, last_flash_cycle_time) >= FLASH_CYCLE_TIME) =>
       /\ last_flash_cycle_time' = now
       /\ light_out' = 1]_vars

\* C19: after every returning call of detect_click, on either pin and with or without
\* a pulse, every timestamp left in activation_clicks lies within the click window
\* ending at the call's current time, and the count compared with REQUIRED_CLICKS is
\* the count after pruning: a call without a qualifying pulse leaves exactly the
\* in-window timestamps, or none when they were enough to activate.
C19_BufferWithinWindow ==
  [][(InClickCall /\ pc' # "busy_wait") =>
       /\ \A i \in 1..Len(activation_clicks') :
            ticks_diff(now, activation_clicks'[i]) <= ClickWindowMs
       /\ Len(activation_clicks') < REQUIRED_CLICKS
       /\ (pulse' = None \/ pulse' < MIN_CLICK_DURATION) =>
            Len(activation_clicks') =
              IF InWindowCount(activation_clicks, now) >= REQUIRED_CLICKS
              THEN 0 ELSE InWindowCount(activation_clicks, now)]_vars

\* a call without a pulse, made after the window of the first pass has gone by, has
\* kept a timestamp that lies exactly on the edge of the window
C19_Witness ==
  /\ AfterClickCall /\ op = "no_activate" /\ pulse = None
  /\ activation_clicks # <<>>
  /\ ticks_diff(now, activation_clicks[1]) = ClickWindowMs
  /\ now > ClickWindowMs + LOOP_INTERVAL

====
